---- MODULE Spec2Model ----
(***************************************************************************)
(* Model of migtate.py: the one-shot MySQL -> PostgreSQL migration of the  *)
(* field-service-hub repository.  main() connects, runs five table         *)
(* transfers in a fixed order, and closes the connections.  Every transfer *)
(* has the shape  try: fetch; build rows (+ registry puts); execute_values *)
(* in pages; commit   except: rollback.                                    *)
(*                                                                         *)
(* The target store is PostgreSQL driven through psycopg2 without          *)
(* autocommit: the first statement opens a transaction, a failed statement *)
(* leaves the transaction aborted (every later statement fails, and        *)
(* commit() then ends it as a rollback without raising), and once the      *)
(* connection is lost every call on it raises, rollback() included.        *)
(* uuid.uuid4() is modelled as a fresh value drawn from a counter.         *)
(***************************************************************************)
EXTENDS Integers, Sequences, FiniteSets, TLC

VARIABLES
  pc,                \* position of main(): connect, run, close, done, exit1, crashed
  cur,               \* index in MainOrder of the transfer main() is running
  step,              \* position inside the running transfer
  src,               \* the source store: table tag -> sequence of rows (read-only)
  rows,              \* the list fetchall() returned to the running transfer
  idx,               \* loop index of the transform loop over rows
  data,              \* table tag -> the list `data` its transfer built
  page,              \* number of pages execute_values has sent for the running transfer
  migrated_records,  \* the Identifier Registry: key string -> identifier
  uuid_ctr,          \* number of identifiers uuid4() has produced
  minted,            \* history: <<tag, source row id, identifier>> of every uuid4() call
  pg_alive,          \* the psycopg2 connection is usable
  pg_tx,             \* transaction status of the connection: idle, open, failed
  tgt,               \* target store, committed rows: table tag -> set of rows
  pend,              \* rows inserted by the open transaction, not committed
  trig_on,           \* committed state of the triggers of invoice_items: name -> enabled
  trig_tx,           \* the open transaction's view of the triggers
  trig_before,       \* history: trig_on when the run started
  triggers,          \* the trigger names the invoice-items transfer fetched
  ti,                \* loop index of the disable / enable loops
  trips,             \* history: table tag -> insert round-trips that succeeded
  commits,           \* history: table tag -> transactions committed by its transfer
  outcome,           \* history: table tag -> pending, running, committed, void, rolledback, raised
  toggle_err,        \* history: an ALTER TABLE ... TRIGGER statement has failed
  closed,            \* close() has been called
  prior              \* what earlier runs of the program left: their number, the target rows, the uuid4() calls

vars == <<pc, cur, step, src, rows, idx, data, page, migrated_records, uuid_ctr,
          minted, pg_alive, pg_tx, tgt, pend, trig_on, trig_tx, trig_before,
          triggers, ti, trips, commits, outcome, toggle_err, closed, prior>>

----------------------------------------------------------------------------
(* Bounds of the model and constants of the program *)

MaxEmp == 2         \* rows of tbl_karyawan
MaxMember == 2      \* rows of tbl_member
MaxProd == 2        \* rows of tbl_product
MaxTxn == 2         \* rows of tbl_transaksi
MaxDetail == 2      \* rows of tbl_detail_transaksi
MaxTrig == 2        \* non-system triggers on invoice_items
MaxCust == 3        \* rows of tbl_member in the end-to-end scenario
MaxInv == 2         \* rows of tbl_transaksi in the end-to-end scenario
PageSize == 100     \* page_size of execute_values

Tables == {"emp", "member", "prod", "txn", "det"}

\* An order that runs the invoices before the customers they reference.
MainOrderInvoicesFirst == <<"emp", "txn", "member", "prod", "det">>

\* The order in which main() calls the transfers.
MainOrder == <<"emp", "member", "prod", "txn", "det">>

----------------------------------------------------------------------------
(* Python values *)

\* A nullable value is <<>> (None) or <<v>>.
None == <<>>
Some(v) == <<v>>

\* `x or d` on a nullable number: None and 0 are falsy.
OrNum(x, d) == IF x = None \/ x = Some(0) THEN d ELSE x[1]

\* `x or d` on a nullable string: None and '' are falsy.
OrStr(x, d) == IF x = None \/ x = Some("") THEN d ELSE x[1]

\* `int(x) if x else d` (and the float form) on a nullable number.
ConvIfElse(x, d) == IF x = None \/ x = Some(0) THEN d ELSE x[1]

\* A key that leaves the source id out.
KeyNoId(prefix, id) == prefix \o "_"

\* The registry key f"{prefix}_{id}".
Key(prefix, id) == prefix \o "_" \o ToString(id)

\* dict.get(key): the value, or None.
Get(mr, k) == IF k \in DOMAIN mr THEN Some(mr[k]) ELSE None

\* An assignment that replaces the dictionary by the one entry.
PutAlone(mr, k, v) == [x \in {k} |-> v]

\* dict[key] = value
Put(mr, k, v) == [x \in (DOMAIN mr) \cup {k} |-> IF x = k THEN v ELSE mr[x]]

\* An identifier generated once and used for every row.
Uuid4Once(ctr) == 1

\* str(uuid.uuid4()): an identifier no earlier call returned.
Uuid4(ctr) == ctr + 1

----------------------------------------------------------------------------
(* Row transforms *)

EmployeeRow(emp, emp_id) ==
  [id |-> emp_id, src |-> emp.id_karyawan, role |-> "technician", status |-> "available"]

CustomerRow(member, cust_id) ==
  [id |-> cust_id, src |-> member.id_member, category |-> "retail"]

ProductRow(prod, prod_id) ==
  [id |-> prod_id, src |-> prod.id_product,
   sku |-> OrStr(prod.seri, "SKU-" \o ToString(prod.id_product)),
   cost_price |-> OrNum(prod.hpp, 0),
   sell_price |-> OrNum(prod.harga, 0),
   stock |-> OrNum(prod.stok, 0)]

InvoiceRow(txn, inv_id, cust_id) ==
  [id |-> inv_id, invoice_number |-> txn.id_transaksi, customer_id |-> cust_id,
   items_total |-> ConvIfElse(txn.total_pembelian, 0),
   grand_total |-> ConvIfElse(txn.total_pembelian, 0),
   amount_paid |-> OrNum(txn.total_pembayaran, 0)]

ItemRow(detail, item_id, inv_id, prod_id) ==
  [id |-> item_id, src |-> detail.row, invoice_id |-> inv_id, product_id |-> prod_id,
   quantity |-> ConvIfElse(detail.qty, 1),
   unit_price |-> ConvIfElse(detail.harga, 0),
   total_price |-> ConvIfElse(detail.subtotal, 0)]

----------------------------------------------------------------------------
(* The stores before the run *)

\* Field values a nullable numeric column takes, by row: NULL, 0, a positive number.
FieldAt(i) == <<None, Some(0), Some(7)>>[((i - 1) % 3) + 1]

\* Values of tbl_product.seri, by row: NULL, '', a serial number.
SeriAt(i) == <<None, Some(""), Some("SN")>>[((i - 1) % 3) + 1]

EmpTable(n) == [i \in 1..n |-> [id_karyawan |-> i]]

MemberTable(n) == [i \in 1..n |-> [id_member |-> i]]

ProdTable(n) ==
  [i \in 1..n |-> [id_product |-> i, seri |-> SeriAt(i), hpp |-> FieldAt(i),
                   harga |-> FieldAt(i + 1), stok |-> FieldAt(i + 2)]]

\* Row k (if any) references a customer that is not in tbl_member.  With bad, the
\* last row holds text in total_pembelian that int() rejects.
TxnTable(n, k, bad) ==
  [i \in 1..n |-> [id_transaksi |-> i, malformed |-> (bad /\ i = n),
                   id_member |-> IF i = k THEN MaxMember + 1 ELSE ((i - 1) % MaxMember) + 1,
                   total_pembelian |-> FieldAt(i + 2),
                   total_pembayaran |-> FieldAt(i)]]

\* Row m (if any) references a product that is not in tbl_product.  With bad, the
\* last row holds text in qty, harga or subtotal that int() or float() rejects.
DetTable(n, m, bad) ==
  [j \in 1..n |-> [row |-> j, malformed |-> (bad /\ j = n),
                   id_transaksi |-> ((j - 1) % MaxTxn) + 1,
                   id_product |-> IF j = m THEN MaxProd + 1 ELSE ((j - 1) % MaxProd) + 1,
                   qty |-> FieldAt(j + 1), harga |-> FieldAt(j + 2),
                   subtotal |-> FieldAt(j + 2)]]

Sources(EmpSizes, Ks, Ms, Bs) ==
  { [emp |-> EmpTable(e), member |-> MemberTable(MaxMember), prod |-> ProdTable(MaxProd),
     txn |-> TxnTable(MaxTxn, k, b = "txn"), det |-> DetTable(MaxDetail, m, b = "det")] :
      e \in EmpSizes, k \in Ks, m \in Ms, b \in Bs }

\* The triggers of invoice_items: all enabled, or the last one disabled.
TriggerStates == { [t \in 1..MaxTrig |-> t <= e] : e \in {MaxTrig - 1, MaxTrig} }

\* __init__ (connections unset, registry empty) in front of the two stores.
InitWith(S) ==
  /\ pc = "connect"
  /\ cur = 1
  /\ step = "fetch"
  /\ src \in S
  /\ rows = <<>>
  /\ idx = 1
  /\ data = [t \in Tables |-> <<>>]
  /\ page = 0
  /\ migrated_records = [x \in {} |-> 0]
  /\ uuid_ctr = 0
  /\ minted = {}
  /\ pg_alive = TRUE
  /\ pg_tx = "idle"
  /\ tgt = [t \in Tables |-> {}]
  /\ pend = {}
  /\ trig_on \in TriggerStates
  /\ trig_tx = trig_on
  /\ trig_before = trig_on
  /\ triggers = <<>>
  /\ ti = 1
  /\ trips = [t \in Tables |-> 0]
  /\ commits = [t \in Tables |-> 0]
  /\ outcome = [t \in Tables |-> "pending"]
  /\ toggle_err = FALSE
  /\ closed = FALSE
  /\ prior = [runs |-> 0, tgt |-> [t \in Tables |-> {}], uuids |-> 0]

\* No dangling reference, or one in the first or in the last row of the table; no
\* malformed row, or one in tbl_transaksi or in tbl_detail_transaksi.
Init == InitWith(Sources({MaxEmp}, {0, 1, MaxTxn}, {0, 1, MaxDetail}, {"none", "txn", "det"}))

\* tbl_karyawan fills one page exactly, or one page and one row.
InitBatch == InitWith(Sources({PageSize, PageSize + 1}, {1}, {0}, {"none", "det"}))

\* tbl_transaksi of n well-formed rows; the rows in D reference a customer that is
\* not among the c rows of tbl_member, the others reference one of them.
TxnRefs(n, c, D) ==
  [i \in 1..n |-> [id_transaksi |-> i, malformed |-> FALSE,
                   id_member |-> IF i \in D THEN c + 1 ELSE ((i - 1) % c) + 1,
                   total_pembelian |-> FieldAt(i + 2),
                   total_pembayaran |-> FieldAt(i)]]

\* The end-to-end scenario: one customer or MaxCust customers, MaxInv invoices of
\* which any may reference a customer that does not exist.
EndToEndSources ==
  { [emp |-> EmpTable(MaxEmp), member |-> MemberTable(c), prod |-> ProdTable(MaxProd),
     txn |-> TxnRefs(MaxInv, c, D), det |-> DetTable(MaxDetail, 0, TRUE)] :
      c \in {1, MaxCust}, D \in SUBSET (1..MaxInv) }

InitEndToEnd == InitWith(EndToEndSources)

\* One employee; the first invoice references a customer that does not exist; all
\* rows well-formed, or the last line item malformed; every trigger enabled.
InitTwice ==
  /\ InitWith(Sources({1}, {1}, {0}, {"none", "det"}))
  /\ \A t \in DOMAIN trig_on : trig_on[t]

----------------------------------------------------------------------------
(* The target connection *)

\* What a statement sent on the connection can do: succeed, fail (the
\* transaction becomes aborted), or find the connection lost.
Outcomes ==
  IF ~pg_alive THEN {"lost"}
  ELSE IF pg_tx = "failed" THEN {"err"}
  ELSE {"ok", "err", "lost"}

\* Connection state after a statement with outcome o.
PgAfter(o) ==
  /\ pg_alive' = (o # "lost")
  /\ pg_tx' = CASE o = "ok" -> "open" [] o = "err" -> "failed" [] OTHER -> "idle"

\* The server discards the open transaction (rollback, or the connection is gone).
Discard ==
  /\ pend' = {}
  /\ trig_tx' = trig_on

T == MainOrder[cur]

Running(t, s) == pc = "run" /\ T = t /\ step = s

\* The running transfer returns to main(): the next call, or close().
Return(how) ==
  /\ IF cur < Len(MainOrder)
       THEN /\ cur' = cur + 1
            /\ pc' = "run"
            /\ outcome' = [outcome EXCEPT ![T] = how, ![MainOrder[cur + 1]] = "running"]
       ELSE /\ cur' = cur
            /\ pc' = "close"
            /\ outcome' = [outcome EXCEPT ![T] = how]
  /\ step' = "fetch"

----------------------------------------------------------------------------
(* main() and connect() *)

\* connect(): both connections are established.
Connect ==
  /\ pc = "connect"
  /\ pc' = "run"
  /\ outcome' = [outcome EXCEPT ![MainOrder[1]] = "running"]
  /\ UNCHANGED <<cur, step, src, rows, idx, data, page, migrated_records, uuid_ctr,
                 minted, pg_alive, pg_tx, tgt, pend, trig_on, trig_tx, trig_before, prior,
                 triggers, ti, trips, commits, toggle_err, closed>>

\* connect(): either connection fails; sys.exit(1).
ConnectFail ==
  /\ pc = "connect"
  /\ pc' = "exit1"
  /\ UNCHANGED <<cur, step, src, rows, idx, data, page, migrated_records, uuid_ctr,
                 minted, pg_alive, pg_tx, tgt, pend, trig_on, trig_tx, trig_before, prior,
                 triggers, ti, trips, commits, outcome, toggle_err, closed>>

\* close(), then main() returns: exit status 0.
Close ==
  /\ pc = "close"
  /\ closed' = TRUE
  /\ pc' = "done"
  /\ UNCHANGED <<cur, step, src, rows, idx, data, page, migrated_records, uuid_ctr,
                 minted, pg_alive, pg_tx, tgt, pend, trig_on, trig_tx, trig_before, prior,
                 triggers, ti, trips, commits, outcome, toggle_err>>

\* The exit status of the process: 0, 1, or -1 while it runs.
ExitStatus ==
  CASE pc = "done" -> 0
    [] pc \in {"exit1", "crashed"} -> 1
    [] OTHER -> -1

----------------------------------------------------------------------------
(* The shape every transfer shares *)

mainvars == <<pc, cur, outcome, closed>>
pgvars == <<pg_alive, pg_tx, tgt, pend, trig_on, trig_tx>>
regvars == <<migrated_records, uuid_ctr, minted>>
trigloop == <<triggers, ti>>
hist == <<src, trig_before, prior, trips, commits, toggle_err>>

\* cursor.execute("SELECT * FROM <table>"); fetchall()
FetchAll ==
  /\ pc = "run" /\ step = "fetch"
  /\ rows' = src[T]
  /\ idx' = 1
  /\ data' = [data EXCEPT ![T] = <<>>]
  /\ page' = 0
  /\ step' = IF T = "det" THEN "begin" ELSE "build"
  /\ UNCHANGED <<mainvars, pgvars, regvars, trigloop, hist>>

\* The source store raises on cursor(), execute() or fetchall().
FetchFail ==
  /\ pc = "run" /\ step = "fetch"
  /\ step' = "except"
  /\ UNCHANGED <<mainvars, pgvars, regvars, trigloop, hist, rows, idx, data, page>>

\* The rows of page number p (from 1) of execute_values(..., page_size=PageSize).
PageRows(d, p) ==
  { d[i] : i \in ((p - 1) * PageSize + 1) .. (IF p * PageSize < Len(d) THEN p * PageSize ELSE Len(d)) }

\* A connection in autocommit mode: every page is committed as it is sent.
InsertPageAutocommit ==
  /\ pc = "run" /\ step = "insert"
  /\ page * PageSize < Len(data[T])
  /\ \E o \in Outcomes :
       /\ PgAfter(o)
       /\ IF o = "ok"
            THEN /\ tgt' = [tgt EXCEPT ![T] = @ \cup PageRows(data[T], page + 1)]
                 /\ page' = page + 1
                 /\ trips' = [trips EXCEPT ![T] = @ + 1]
                 /\ UNCHANGED <<step, trig_tx, pend>>
            ELSE /\ step' = "except"
                 /\ IF o = "lost" THEN Discard ELSE UNCHANGED <<pend, trig_tx>>
                 /\ UNCHANGED <<page, trips, tgt>>
  /\ UNCHANGED <<mainvars, trig_on, regvars, trigloop, src, trig_before, prior, commits,
                 toggle_err, rows, idx, data>>

\* execute_values sends the next page as one INSERT statement.
InsertPage ==
  /\ pc = "run" /\ step = "insert"
  /\ page * PageSize < Len(data[T])
  /\ \E o \in Outcomes :
       /\ PgAfter(o)
       /\ IF o = "ok"
            THEN /\ pend' = pend \cup PageRows(data[T], page + 1)
                 /\ page' = page + 1
                 /\ trips' = [trips EXCEPT ![T] = @ + 1]
                 /\ UNCHANGED <<step, trig_tx>>
            ELSE /\ step' = "except"
                 /\ IF o = "lost" THEN Discard ELSE UNCHANGED <<pend, trig_tx>>
                 /\ UNCHANGED <<page, trips>>
  /\ UNCHANGED <<mainvars, tgt, trig_on, regvars, trigloop, src, trig_before, prior, commits,
                 toggle_err, rows, idx, data>>

\* self.pg_conn.commit(): a lost connection raises; an aborted transaction is ended
\* by the server as a rollback and nothing is raised; an open transaction commits,
\* or fails at commit time (a deferred constraint, the connection).
Commit ==
  /\ pc = "run" /\ step = "commit"
  /\ IF ~pg_alive
       THEN /\ step' = "except"
            /\ UNCHANGED <<mainvars, pgvars, commits>>
       ELSE IF pg_tx = "failed"
       THEN /\ Discard
            /\ pg_tx' = "idle"
            /\ Return("void")
            /\ UNCHANGED <<pg_alive, tgt, trig_on, commits, closed>>
       ELSE IF pg_tx = "idle"
       THEN /\ Return("committed")
            /\ UNCHANGED <<pgvars, commits, closed>>
       ELSE \E o \in {"ok", "err", "lost"} :
            /\ pg_alive' = (o # "lost")
            /\ pg_tx' = "idle"
            /\ pend' = {}
            /\ IF o = "ok"
                 THEN /\ tgt' = [tgt EXCEPT ![T] = @ \cup pend]
                      /\ trig_on' = trig_tx
                      /\ trig_tx' = trig_tx
                      /\ commits' = [commits EXCEPT ![T] = @ + 1]
                      /\ Return("committed")
                      /\ UNCHANGED closed
                 ELSE /\ trig_tx' = trig_on
                      /\ step' = "except"
                      /\ UNCHANGED <<mainvars, tgt, trig_on, commits>>
  /\ UNCHANGED <<regvars, trigloop, src, trig_before, prior, trips, toggle_err, rows, idx, data, page>>

\* A rollback that empties the target store.
RollbackEverything ==
  /\ pc = "run" /\ step = "except"
  /\ pg_alive
  /\ Discard
  /\ pg_tx' = "idle"
  /\ tgt' = [t \in Tables |-> {}]
  /\ Return("rolledback")
  /\ UNCHANGED <<pg_alive, trig_on, closed, regvars, trigloop, hist, rows, idx, data, page>>

\* except: self.pg_conn.rollback() on a usable connection; the transfer returns.
Rollback ==
  /\ pc = "run" /\ step = "except"
  /\ pg_alive
  /\ Discard
  /\ pg_tx' = "idle"
  /\ Return("rolledback")
  /\ UNCHANGED <<pg_alive, tgt, trig_on, closed, regvars, trigloop, hist, rows, idx, data, page>>

\* except: self.pg_conn.rollback() raises on a lost connection; nothing catches it,
\* the exception leaves main() and the interpreter exits with status 1.
RollbackRaises ==
  /\ pc = "run" /\ step = "except"
  /\ ~pg_alive
  /\ pc' = "crashed"
  /\ outcome' = [outcome EXCEPT ![T] = "raised"]
  /\ UNCHANGED <<cur, step, closed, pgvars, regvars, trigloop, hist, rows, idx, data, page>>

----------------------------------------------------------------------------
(* The transform loops *)

Building(t) == pc = "run" /\ T = t /\ step = "build" /\ idx <= Len(rows)

loopframe == <<mainvars, pgvars, trigloop, hist, rows, page, step>>

\* migrate_employees, one turn of `for emp in employees`
BuildEmployee ==
  /\ Building("emp")
  /\ LET emp == rows[idx]
         emp_id == Uuid4(uuid_ctr)
     IN /\ uuid_ctr' = emp_id
        /\ minted' = minted \cup {<<"emp", emp.id_karyawan, emp_id>>}
        /\ data' = [data EXCEPT !["emp"] = Append(@, EmployeeRow(emp, emp_id))]
        /\ migrated_records' = Put(migrated_records, Key("emp", emp.id_karyawan), emp_id)
  /\ idx' = idx + 1
  /\ UNCHANGED loopframe

\* migrate_customers, one turn of `for member in members`
BuildCustomer ==
  /\ Building("member")
  /\ LET member == rows[idx]
         cust_id == Uuid4(uuid_ctr)
     IN /\ uuid_ctr' = cust_id
        /\ minted' = minted \cup {<<"member", member.id_member, cust_id>>}
        /\ data' = [data EXCEPT !["member"] = Append(@, CustomerRow(member, cust_id))]
        /\ migrated_records' = Put(migrated_records, Key("member", member.id_member), cust_id)
  /\ idx' = idx + 1
  /\ UNCHANGED loopframe

\* migrate_products, one turn of `for prod in products`
BuildProduct ==
  /\ Building("prod")
  /\ LET prod == rows[idx]
         prod_id == Uuid4(uuid_ctr)
     IN /\ uuid_ctr' = prod_id
        /\ minted' = minted \cup {<<"prod", prod.id_product, prod_id>>}
        /\ data' = [data EXCEPT !["prod"] = Append(@, ProductRow(prod, prod_id))]
        /\ migrated_records' = Put(migrated_records, Key("prod", prod.id_product), prod_id)
  /\ idx' = idx + 1
  /\ UNCHANGED loopframe

\* The customer looked up under the employee tag.
CustomerOfEmployee(txn) == Get(migrated_records, Key("emp", txn.id_member))

\* migrate_invoices: cust_id = self.migrated_records.get(f"member_{txn['id_member']}")
CustomerOf(txn) == Get(migrated_records, Key("member", txn.id_member))

\* migrate_invoices: `if not cust_id`
InvoiceSkipped(txn) == CustomerOf(txn) = None

\* migrate_invoices, one turn of `for txn in transactions` that appends a row
BuildInvoice ==
  /\ Building("txn")
  /\ LET txn == rows[idx]
         inv_id == Uuid4(uuid_ctr)
     IN /\ ~InvoiceSkipped(txn)
        /\ ~txn.malformed
        /\ uuid_ctr' = inv_id
        /\ minted' = minted \cup {<<"txn", txn.id_transaksi, inv_id>>}
        /\ data' = [data EXCEPT !["txn"] = Append(@, InvoiceRow(txn, inv_id, CustomerOf(txn)[1]))]
        /\ migrated_records' = Put(migrated_records, Key("txn", txn.id_transaksi), inv_id)
  /\ idx' = idx + 1
  /\ UNCHANGED loopframe

\* A skipping turn that records the identifier before it tests the lookup.
SkipInvoiceRegisters ==
  /\ Building("txn")
  /\ LET txn == rows[idx]
         inv_id == Uuid4(uuid_ctr)
     IN /\ InvoiceSkipped(txn)
        /\ uuid_ctr' = inv_id
        /\ minted' = minted \cup {<<"txn", txn.id_transaksi, inv_id>>}
        /\ migrated_records' = Put(migrated_records, Key("txn", txn.id_transaksi), inv_id)
  /\ idx' = idx + 1
  /\ UNCHANGED <<loopframe, data>>

\* migrate_invoices, one turn that takes `continue`: inv_id was already generated
SkipInvoice ==
  /\ Building("txn")
  /\ LET txn == rows[idx]
         inv_id == Uuid4(uuid_ctr)
     IN /\ InvoiceSkipped(txn)
        /\ uuid_ctr' = inv_id
        /\ minted' = minted \cup {<<"txn", txn.id_transaksi, inv_id>>}
  /\ idx' = idx + 1
  /\ UNCHANGED <<loopframe, data, migrated_records>>

\* migrate_invoice_items: the two registry lookups
InvoiceOf(detail) == Get(migrated_records, Key("txn", detail.id_transaksi))

\* The product lookup made under the transaction tag.
ProductOfTxn(detail) == Get(migrated_records, Key("txn", detail.id_product))

ProductOf(detail) == Get(migrated_records, Key("prod", detail.id_product))

\* migrate_invoice_items: `if not inv_id or not prod_id`
ItemSkipped(detail) == InvoiceOf(detail) = None \/ ProductOf(detail) = None

\* migrate_invoice_items, one turn of `for detail in details` that appends a row
BuildItem ==
  /\ Building("det")
  /\ LET detail == rows[idx]
         item_id == Uuid4(uuid_ctr)
     IN /\ ~ItemSkipped(detail)
        /\ ~detail.malformed
        /\ uuid_ctr' = item_id
        /\ minted' = minted \cup {<<"det", detail.row, item_id>>}
        /\ data' = [data EXCEPT !["det"] =
                      Append(@, ItemRow(detail, item_id, InvoiceOf(detail)[1], ProductOf(detail)[1]))]
  /\ idx' = idx + 1
  /\ UNCHANGED <<loopframe, migrated_records>>

\* migrate_invoice_items, one turn that takes `continue`
SkipItem ==
  /\ Building("det")
  /\ ItemSkipped(rows[idx])
  /\ idx' = idx + 1
  /\ UNCHANGED <<loopframe, data, regvars>>

\* int() or float() raises ValueError while the row tuple is built: the row's
\* identifier was generated, nothing was appended or registered.
BuildRaises ==
  /\ pc = "run" /\ step = "build" /\ idx <= Len(rows)
  /\ T \in {"txn", "det"}
  /\ rows[idx].malformed
  /\ IF T = "txn" THEN ~InvoiceSkipped(rows[idx]) ELSE ~ItemSkipped(rows[idx])
  /\ uuid_ctr' = Uuid4(uuid_ctr)
  /\ minted' = minted \cup {<<T, idx, Uuid4(uuid_ctr)>>}
  /\ step' = "except"
  /\ UNCHANGED <<mainvars, pgvars, trigloop, hist, rows, page, idx, data, migrated_records>>

----------------------------------------------------------------------------
(* The trigger handling of migrate_invoice_items *)

\* SET CONSTRAINTS ALL DEFERRED, then the SELECT of the non-system trigger names
BeginItems ==
  /\ pc = "run" /\ step = "begin"
  /\ \E o \in Outcomes :
       /\ PgAfter(o)
       /\ IF o = "ok"
            THEN /\ triggers' = [i \in 1..Len(trig_tx) |-> i]
                 /\ ti' = 1
                 /\ step' = "disable"
                 /\ UNCHANGED <<pend, trig_tx>>
            ELSE /\ step' = "except"
                 /\ IF o = "lost" THEN Discard ELSE UNCHANGED <<pend, trig_tx>>
                 /\ UNCHANGED trigloop
  /\ UNCHANGED <<mainvars, tgt, trig_on, regvars, hist, rows, idx, data, page>>

\* ALTER TABLE ... DISABLE / ENABLE TRIGGER inside try/except-pass: the trigger's
\* state after the statement, whatever its outcome.
Toggled(o, name, enabled) ==
  CASE o = "ok" -> [trig_tx EXCEPT ![name] = enabled]
    [] o = "err" -> trig_tx
    [] OTHER -> trig_on

\* one turn of the disable loop
DisableTrigger ==
  /\ pc = "run" /\ step = "disable"
  /\ ti <= Len(triggers)
  /\ \E o \in Outcomes :
       /\ PgAfter(o)
       /\ trig_tx' = Toggled(o, triggers[ti], FALSE)
       /\ pend' = IF o = "lost" THEN {} ELSE pend
       /\ toggle_err' = (toggle_err \/ o = "err")
  /\ ti' = ti + 1
  /\ UNCHANGED <<mainvars, tgt, trig_on, regvars, src, trig_before, prior, trips, commits,
                 rows, idx, data, page, step, triggers>>

\* A re-enable loop that sends no statement.
EnableTriggerNoop ==
  /\ pc = "run" /\ step = "enable"
  /\ ti <= Len(triggers)
  /\ ti' = ti + 1
  /\ UNCHANGED <<mainvars, pgvars, regvars, hist, rows, idx, data, page, step, triggers>>

\* one turn of the re-enable loop
EnableTrigger ==
  /\ pc = "run" /\ step = "enable"
  /\ ti <= Len(triggers)
  /\ \E o \in Outcomes :
       /\ PgAfter(o)
       /\ trig_tx' = Toggled(o, triggers[ti], TRUE)
       /\ pend' = IF o = "lost" THEN {} ELSE pend
       /\ toggle_err' = (toggle_err \/ o = "err")
  /\ ti' = ti + 1
  /\ UNCHANGED <<mainvars, tgt, trig_on, regvars, src, trig_before, prior, trips, commits,
                 rows, idx, data, page, step, triggers>>

\* A loop of the running transfer is exhausted; control reaches the next statement.
LoopExit ==
  /\ pc = "run"
  /\ \/ /\ step = "disable" /\ ti > Len(triggers)
        /\ step' = "build" /\ ti' = ti
     \/ /\ step = "build" /\ idx > Len(rows)
        /\ step' = "insert" /\ ti' = ti
     \/ /\ step = "insert" /\ page * PageSize >= Len(data[T])
        /\ step' = IF T = "det" THEN "enable" ELSE "commit"
        /\ ti' = 1
     \/ /\ step = "enable" /\ ti > Len(triggers)
        /\ step' = "commit" /\ ti' = ti
  /\ UNCHANGED <<mainvars, pgvars, regvars, hist, rows, idx, data, page, triggers>>

----------------------------------------------------------------------------
(* A second run *)

\* The process is started again on the same stores after its first run ended
\* (exit status 0 or 1): connect() opens new connections; the target tables are as
\* the first run left them, and uuid4() returns no identifier it returned before.
Restart ==
  /\ pc \in {"done", "exit1", "crashed"}
  /\ prior.runs = 0
  /\ prior' = [runs |-> 1, tgt |-> tgt, uuids |-> uuid_ctr]
  /\ pc' = "connect"
  /\ cur' = 1
  /\ step' = "fetch"
  /\ rows' = <<>>
  /\ idx' = 1
  /\ data' = [t \in Tables |-> <<>>]
  /\ page' = 0
  /\ minted' = {}
  /\ pg_alive' = TRUE
  /\ pg_tx' = "idle"
  /\ pend' = {}
  /\ trig_tx' = trig_on
  /\ trig_before' = trig_on
  /\ triggers' = <<>>
  /\ ti' = 1
  /\ trips' = [t \in Tables |-> 0]
  /\ commits' = [t \in Tables |-> 0]
  /\ outcome' = [t \in Tables |-> "pending"]
  /\ toggle_err' = FALSE
  /\ closed' = FALSE
  /\ UNCHANGED <<src, uuid_ctr, tgt, trig_on>>

\* A second run that keeps the registry of the first.
RunAgainSameRegistry == Restart /\ UNCHANGED migrated_records

\* main() run a second time: __init__ makes a new object with an empty registry.
RunAgain == Restart /\ migrated_records' = [x \in {} |-> 0]

----------------------------------------------------------------------------

Next ==
  \/ Connect \/ ConnectFail \/ Close
  \/ FetchAll \/ FetchFail
  \/ BuildEmployee \/ BuildCustomer \/ BuildProduct
  \/ BuildInvoice \/ SkipInvoice \/ BuildItem \/ SkipItem \/ BuildRaises
  \/ BeginItems \/ DisableTrigger \/ EnableTrigger \/ LoopExit
  \/ InsertPage \/ Commit \/ Rollback \/ RollbackRaises

Spec == Init /\ [][Next]_vars

SpecBatch == InitBatch /\ [][Next]_vars

SpecEndToEnd == InitEndToEnd /\ [][Next]_vars

\* The program run once, or twice in a row.
NextTwice == Next \/ RunAgain

SpecTwice == InitTwice /\ [][NextTwice]_vars

----------------------------------------------------------------------------
(* Vocabulary of the properties *)

Range(f) == { f[i] : i \in DOMAIN f }

Ended(t) == outcome[t] \in {"committed", "void", "rolledback", "raised"}

Started(t) == outcome[t] # "pending"

\* Source rows of a table, and the source id of a row, by table tag.
SrcRows(t) == Range(src[t])

SrcId(t, r) ==
  CASE t = "emp" -> r.id_karyawan
    [] t = "member" -> r.id_member
    [] t = "prod" -> r.id_product
    [] t = "txn" -> r.id_transaksi
    [] OTHER -> r.row

\* The source id a target row was produced from, by table tag.
From(t, row) == IF t = "txn" THEN row.invoice_number ELSE row.src

\* The registry has a mapping under (tag, source id).
Mapped(tag, id) == Key(tag, id) \in DOMAIN migrated_records

\* Every row the running or finished transfer of t holds anywhere: built, sent, committed.
RowsAnywhere(t) == Range(data[t]) \cup tgt[t] \cup (IF T = t THEN pend ELSE {})

\* The identifiers uuid4() generated for source row (tag, id).
MintedFor(tag, id) == { m[3] : m \in { x \in minted : x[1] = tag /\ x[2] = id } }

AllMinted == { m[3] : m \in minted }

\* Every identifier a target row or the registry holds.
IdsInUse ==
  Range(migrated_records)
    \cup UNION { { row.id : row \in RowsAnywhere(t) } : t \in Tables }
    \cup { row.customer_id : row \in RowsAnywhere("txn") }
    \cup { row.invoice_id : row \in RowsAnywhere("det") }
    \cup { row.product_id : row \in RowsAnywhere("det") }

----------------------------------------------------------------------------
(* C1 *)

\* The target table of t holds exactly one row produced from each source row of t,
\* its identifier was generated once, for that row only, and the registry maps the
\* row's (tag, source id) to it.
OneRowEach(t) ==
  \A r \in SrcRows(t) :
    LET made == { row \in tgt[t] : From(t, row) = SrcId(t, r) }
    IN /\ Cardinality(made) = 1
       /\ \A row \in made :
            /\ Cardinality({ m \in minted : m[3] = row.id }) = 1
            /\ MintedFor(t, SrcId(t, r)) = {row.id}
            /\ Mapped(t, SrcId(t, r))
            /\ migrated_records[Key(t, SrcId(t, r))] = row.id

\* C1 as stated: for each of employees, customers, products and every source row,
\* once the transfer has run the target holds exactly one row made from it, with a
\* fresh identifier unique in the run that the registry maps its source key to.
C1_AfterRun ==
  \A t \in {"emp", "member", "prod"} : Ended(t) => OneRowEach(t)

\* C1 amended: the same, once the transfer has run and its transaction committed;
\* a transfer that failed and rolled back leaves its target table without rows.
C1_AfterCommit ==
  \A t \in {"emp", "member", "prod"} :
    /\ outcome[t] = "committed" => OneRowEach(t)
    /\ outcome[t] \in {"rolledback", "raised"} => tgt[t] = {}

\* All three non-dependent transfers committed tables of at least two rows.
C1_Witness ==
  \A t \in {"emp", "member", "prod"} :
    outcome[t] = "committed" /\ Cardinality(tgt[t]) >= 2

----------------------------------------------------------------------------
(* C2 *)

\* The invoice transfer met source invoice txn with no mapping for its customer.
Unresolved(txn) == Started("txn") /\ ~Mapped("member", txn.id_member)

NoInvoiceFor(txn) ==
  /\ \A row \in RowsAnywhere("txn") : row.invoice_number # txn.id_transaksi
  /\ ~Mapped("txn", txn.id_transaksi)

\* C2 as stated: an invoice whose id_member has no member mapping when the invoice
\* transfer runs gets no target row, no identifier and no transaction-tag entry.
C2_NothingMinted ==
  \A txn \in SrcRows("txn") :
    Unresolved(txn) => NoInvoiceFor(txn) /\ MintedFor("txn", txn.id_transaksi) = {}

\* C2 amended: such an invoice gets no target row and no transaction-tag entry; the
\* identifier the transfer generates for it before the lookup is discarded: no
\* target row and no registry entry holds it.
C2_MintedUnused ==
  \A txn \in SrcRows("txn") :
    Unresolved(txn) =>
      /\ NoInvoiceFor(txn)
      /\ MintedFor("txn", txn.id_transaksi) \cap IdsInUse = {}

\* The invoice transfer committed an invoice and skipped another, whose identifier
\* had been generated.
C2_Witness ==
  /\ outcome["txn"] = "committed"
  /\ tgt["txn"] # {}
  /\ \E txn \in SrcRows("txn") :
       Unresolved(txn) /\ MintedFor("txn", txn.id_transaksi) # {}

----------------------------------------------------------------------------
(* C3 *)

\* The registry lacks the mapping of the line item's invoice or of its product.
\* (Neither tag is written once the invoice-items transfer has started.)
Unmapped(detail) ==
  ~Mapped("txn", detail.id_transaksi) \/ ~Mapped("prod", detail.id_product)

NoItemFor(detail) == \A row \in RowsAnywhere("det") : row.src # detail.row

\* The target holds the line item, referencing the identifiers of its invoice and product.
Written(detail) ==
  \E row \in tgt["det"] :
    /\ row.src = detail.row
    /\ row.invoice_id = migrated_records[Key("txn", detail.id_transaksi)]
    /\ row.product_id = migrated_records[Key("prod", detail.id_product)]

\* The invoice-items transfer ran its transform loop over every line item and ended.
ItemsLoopDone == Ended("det") /\ rows = src["det"] /\ idx > Len(rows)

\* C3 as stated: a line item with an unmapped reference is omitted, and every other
\* line item whose two references are mapped is still written.  (Read on the runs
\* in which no trigger statement failed, where it does not rest on C10.)
C3_OthersWritten ==
  (ItemsLoopDone /\ ~toggle_err) =>
    \A detail \in SrcRows("det") :
      Unmapped(detail) =>
        /\ NoItemFor(detail)
        /\ \A other \in SrcRows("det") : ~Unmapped(other) => Written(other)

C3_Omitted ==
  Started("det") =>
    \A detail \in SrcRows("det") :
      /\ Unmapped(detail) => NoItemFor(detail)
      /\ (outcome["det"] = "committed" /\ ~Unmapped(detail)) => Written(detail)
      /\ (outcome["det"] \in {"void", "rolledback", "raised"}) => tgt["det"] = {}

\* The loop turn over a line item with an unmapped reference raises nothing: the
\* loop goes on to the next line item.
C3_SkipRaisesNothing ==
  (Building("det") /\ Unmapped(rows[idx])) =>
    (step' = "build" /\ idx' = idx + 1 /\ pc' = pc /\ outcome' = outcome)

\* C3 amended: a line item with an unmapped reference (also one of a skipped
\* invoice) is omitted and raises no error; every other line item whose two
\* references are mapped is written when the transfer's transaction commits, and
\* no line item is written when the transfer fails.
C3_SkipOnlyUnmapped == []C3_Omitted /\ [][C3_SkipRaisesNothing]_vars

\* The transfer committed one line item and skipped another.
C3_Witness ==
  /\ outcome["det"] = "committed"
  /\ \E detail \in SrcRows("det") : Unmapped(detail) /\ NoItemFor(detail)
  /\ \E other \in SrcRows("det") : ~Unmapped(other) /\ Written(other)

----------------------------------------------------------------------------
(* C4 *)

\* C4 as stated: once connected, whatever fails in the stores, no error of a
\* transfer reaches main(): the run ends with all five transfers started and
\* close() called.
C4_AllFiveThenClose ==
  pc \in {"done", "crashed"} =>
    /\ pc = "done"
    /\ \A t \in Tables : Started(t)
    /\ closed

----------------------------------------------------------------------------
(* C5 *)

\* Round-trips execute_values needs for n rows.
PagesFor(n) == (n + PageSize - 1) \div PageSize

\* C5: the target table of a transfer holds none of the rows the transfer built, or
\* all of them, committed by one commit after all the round-trips; a table of
\* PageSize + 1 rows takes two round-trips and one commit.
C5_AllOrNothing ==
  \A t \in Tables :
    /\ commits[t] <= 1
    /\ \/ tgt[t] = {} /\ (commits[t] = 1 => data[t] = <<>>)
       \/ /\ tgt[t] = Range(data[t])
          /\ Cardinality(tgt[t]) = Len(data[t])
          /\ commits[t] = 1
          /\ trips[t] = PagesFor(Len(data[t]))
    /\ (outcome[t] = "committed" /\ Len(data[t]) = PageSize + 1) =>
         (trips[t] = 2 /\ commits[t] = 1 /\ Cardinality(tgt[t]) = PageSize + 1)
    /\ outcome[t] = "committed" => tgt[t] = Range(data[t])
    /\ outcome[t] \in {"void", "rolledback", "raised"} => tgt[t] = {}

\* A table of PageSize + 1 rows was committed after two round-trips.
C5_Witness ==
  /\ outcome["emp"] = "committed"
  /\ Len(data["emp"]) = PageSize + 1
  /\ trips["emp"] = 2
  /\ commits["emp"] = 1
  /\ Cardinality(tgt["emp"]) = PageSize + 1

\* A transfer was rolled back after its first round-trip had succeeded.
C5_WitnessRollback ==
  /\ outcome["emp"] = "rolledback"
  /\ trips["emp"] = 1
  /\ tgt["emp"] = {}

----------------------------------------------------------------------------
(* C6 *)

\* C6 as stated: the exit status is non-zero exactly when connecting failed; then
\* no transfer started and no target row was written; once connected the process
\* exits 0 whichever transfers failed.
C6_NonZeroIffConnectFailed ==
  /\ pc = "exit1" =>
       /\ \A t \in Tables : ~Started(t) /\ tgt[t] = {}
       /\ pend = {}
  /\ ExitStatus # -1 => (ExitStatus # 0 <=> pc = "exit1")

----------------------------------------------------------------------------
(* C7 *)

Finished(t) == outcome[t] \in {"committed", "void", "rolledback"}

----------------------------------------------------------------------------
(* C8 *)

\* The keys the registry maps to an identifier.
ReverseLookup(id) == { k \in DOMAIN migrated_records : migrated_records[k] = id }

Injective ==
  \A k1, k2 \in DOMAIN migrated_records :
    migrated_records[k1] = migrated_records[k2] => k1 = k2

\* C8 as stated: the registry is injective, and the reverse lookup of the
\* identifier of every migrated row yields exactly the row's own source key.
C8_EveryRowRoundTrips ==
  /\ Injective
  /\ \A t \in Tables : \A row \in tgt[t] : ReverseLookup(row.id) = {Key(t, From(t, row))}

\* C8 amended: the registry is injective, and the reverse lookup of the identifier
\* of every migrated employee, customer, product and invoice yields exactly the
\* row's own source key; invoice line items are never registered, so the reverse
\* lookup of a line item's identifier yields nothing.
C8_RegisteredRowsRoundTrip ==
  /\ Injective
  /\ \A t \in {"emp", "member", "prod", "txn"} : \A row \in tgt[t] :
       ReverseLookup(row.id) = {Key(t, From(t, row))}
  /\ \A row \in tgt["det"] : ReverseLookup(row.id) = {}

\* Rows of every table were migrated.
C8_Witness == \A t \in Tables : tgt[t] # {}

----------------------------------------------------------------------------
(* C9 *)

TriggerNames == DOMAIN trig_on

\* C9: whenever the bulk insert of the invoice-items transfer can take effect every
\* trigger of invoice_items is disabled; a commit of the transfer leaves every
\* trigger enabled; and however the transfer's transaction ends, no trigger that
\* was enabled before the transfer is disabled in the committed state.
C9_TriggersRestored ==
  /\ \A t \in TriggerNames : trig_before[t] => trig_on[t]
  /\ (pc = "run" /\ T = "det" /\ step = "insert" /\ pg_alive /\ pg_tx = "open") =>
       \A t \in TriggerNames : ~trig_tx[t]
  /\ (T = "det" /\ pend # {}) => (step \in {"insert", "enable", "commit", "except"})
  /\ commits["det"] = 1 => \A t \in TriggerNames : trig_on[t]
  /\ Ended("det") =>
       /\ trig_tx = trig_on
       /\ trig_on = trig_before \/ \A t \in TriggerNames : trig_on[t]

\* The transfer committed line items; the triggers, enabled before, are enabled.
C9_Witness ==
  /\ outcome["det"] = "committed"
  /\ tgt["det"] # {}
  /\ \A t \in TriggerNames : trig_before[t] /\ trig_on[t]

----------------------------------------------------------------------------
(* C10 *)

\* C10 as stated: when a statement that disables or enables a trigger fails, the
\* transfer still inserts and commits all the line items it built, and does not
\* roll back.  (Read on the runs in which the transfer fetched and transformed all
\* its rows, so that nothing but the trigger statement failed on its own.)
C10_ToggleFailureTolerated ==
  (toggle_err /\ ItemsLoopDone) =>
    /\ outcome["det"] \in {"committed", "void"}
    /\ Range(data["det"]) \subseteq tgt["det"]

----------------------------------------------------------------------------
(* C11 *)

\* The keys the registry holds under a tag, and the identifiers it maps them to.
KeysOf(t) == { Key(t, SrcId(t, r)) : r \in SrcRows(t) } \cap DOMAIN migrated_records

EntriesOf(t) == { migrated_records[k] : k \in KeysOf(t) }

\* The source invoices whose customer is a row of the source customer table.
InvoicesOfCustomers ==
  { txn \in SrcRows("txn") : \E member \in SrcRows("member") : member.id_member = txn.id_member }

\* The registry holds one entry per committed row of t: as many entries as rows, and
\* the entries are the rows' identifiers under the rows' own source keys.
OneEntryPerRow(t) ==
  /\ Cardinality(KeysOf(t)) = Cardinality(tgt[t])
  /\ EntriesOf(t) = { row.id : row \in tgt[t] }
  /\ \A row \in tgt[t] : Get(migrated_records, Key(t, From(t, row))) = Some(row.id)

\* The scenario of the claim: 3 customers, 2 invoices, one of them referencing the
\* customer id 4 that does not exist.
ThreeAndTwo ==
  /\ Len(src["member"]) = 3
  /\ Len(src["txn"]) = 2
  /\ Cardinality({ i \in 1..2 : src["txn"][i].id_member = 4 }) = 1

\* No statement failed in the customers and the invoices transfer: both committed.
\* (Every store-level error in a transfer ends it rolled back or raised.)
CustomersAndInvoicesCommitted ==
  outcome["member"] = "committed" /\ outcome["txn"] = "committed"

\* C11: in a run without store-level error the target holds as many customers as the
\* source, as many invoices as the source invoices whose customer is in the source
\* customer table, and the registry holds exactly one entry per target customer and
\* per target invoice; 3 customers and 2 invoices, one referencing a 4th customer,
\* give 3 customers, 1 invoice, 3 customer entries and 1 invoice entry.
C11_EndToEndCounts ==
  CustomersAndInvoicesCommitted =>
    /\ Cardinality(tgt["member"]) = Len(src["member"])
    /\ Cardinality(tgt["txn"]) = Cardinality(InvoicesOfCustomers)
    /\ { row.invoice_number : row \in tgt["txn"] } = { txn.id_transaksi : txn \in InvoicesOfCustomers }
    /\ OneEntryPerRow("member")
    /\ OneEntryPerRow("txn")
    /\ DOMAIN migrated_records = UNION { KeysOf(t) : t \in {"emp", "member", "prod", "txn"} }
    /\ ThreeAndTwo =>
         /\ Cardinality(tgt["member"]) = 3
         /\ Cardinality(tgt["txn"]) = 1
         /\ Cardinality(KeysOf("member")) = 3
         /\ Cardinality(KeysOf("txn")) = 1

\* The run of the scenario ended without error: 3 customers and 1 invoice committed.
C11_Witness ==
  /\ pc = "done"
  /\ \A t \in Tables : outcome[t] \in {"committed", "rolledback"}
  /\ CustomersAndInvoicesCommitted
  /\ ThreeAndTwo
  /\ Cardinality(tgt["member"]) = 3
  /\ Cardinality(tgt["txn"]) = 1

----------------------------------------------------------------------------
(* C12 *)

\* The rows a transfer committed are the rows it built, for as long as the run lasts.
C12_Kept == \A t \in Tables : outcome[t] = "committed" => tgt[t] = Range(data[t])

\* A step of the run leaves the source store and the committed rows of every table
\* but the running transfer's unchanged, and removes no committed row; the step
\* that handles a failure (rollback) changes no committed row at all and leaves
\* nothing of the failing transfer's uncommitted writes.
C12_Step ==
  /\ src' = src
  /\ \A t \in Tables : tgt[t] \subseteq tgt'[t]
  /\ \A t \in Tables : t # T => tgt'[t] = tgt[t]
  /\ (pc = "run" /\ step = "except") => (tgt' = tgt /\ pend' = {})

\* C12: each table is committed independently: a failure and rollback in a later
\* transfer leaves the rows committed by the earlier transfers unchanged, undoes
\* only the failing transfer's uncommitted writes, and leaves the source unchanged.
C12_CommittedIndependently == []C12_Kept /\ [][C12_Step]_vars

\* The invoices transfer sent rows and was rolled back after the customers
\* transfer had committed: the customers are in the target, no invoice is.
C12_Witness ==
  /\ outcome["member"] = "committed"
  /\ tgt["member"] = Range(data["member"])
  /\ tgt["member"] # {}
  /\ outcome["txn"] = "rolledback"
  /\ trips["txn"] >= 1
  /\ tgt["txn"] = {}

----------------------------------------------------------------------------
(* C13 *)

SecondRun == prior.runs = 1

\* The rows the second run committed, and the identifiers the first run generated.
NewRows(t) == tgt[t] \ prior.tgt[t]

FirstRunIds == 1..prior.uuids

\* The rows of S that were produced from source row r of table t.
RowsFrom(S, t, r) == { row \in S : From(t, row) = SrcId(t, r) }

\* The source row a target invoice or line item was produced from.
TxnOf(row) == CHOOSE txn \in SrcRows("txn") : txn.id_transaksi = row.invoice_number

DetailOf(row) == CHOOSE detail \in SrcRows("det") : detail.row = row.src

\* C13: after a second run on the unchanged source and the uncleared target, every
\* source row migrated in both runs has two target rows with two different
\* identifiers (a non-dependent table committed by both runs holds every row
\* twice), and the dependent rows of the second run reference the identifiers the
\* second run generated and registered, never one of the first run.
C13_TwoRowsTwoIdentifiers ==
  SecondRun =>
    /\ \A t \in Tables : prior.tgt[t] \subseteq tgt[t]
    /\ \A t \in Tables : \A r \in SrcRows(t) :
         LET old == RowsFrom(prior.tgt[t], t, r)
             new == RowsFrom(NewRows(t), t, r)
         IN /\ (old # {} /\ new # {}) =>
                 /\ Cardinality(RowsFrom(tgt[t], t, r)) = 2
                 /\ \A a \in old, b \in new :
                      a.id # b.id /\ a.id \in FirstRunIds /\ b.id \notin FirstRunIds
            /\ (t \in {"emp", "member", "prod"} /\ old # {} /\ outcome[t] = "committed") =>
                 new # {}
    /\ \A row \in NewRows("txn") :
         /\ row.customer_id \notin FirstRunIds
         /\ MintedFor("member", TxnOf(row).id_member) = {row.customer_id}
         /\ CustomerOf(TxnOf(row)) = Some(row.customer_id)
    /\ \A row \in NewRows("det") :
         /\ row.invoice_id \notin FirstRunIds
         /\ row.product_id \notin FirstRunIds
         /\ MintedFor("txn", DetailOf(row).id_transaksi) = {row.invoice_id}
         /\ MintedFor("prod", DetailOf(row).id_product) = {row.product_id}
         /\ InvoiceOf(DetailOf(row)) = Some(row.invoice_id)
         /\ ProductOf(DetailOf(row)) = Some(row.product_id)

\* Both runs ended with rows of every table committed.
C13_Witness ==
  /\ SecondRun
  /\ pc = "done"
  /\ \A t \in Tables : prior.tgt[t] # {} /\ NewRows(t) # {}
  /\ \A t \in Tables : \A r \in SrcRows(t) :
       RowsFrom(prior.tgt[t], t, r) # {} => Cardinality(RowsFrom(tgt[t], t, r)) = 2

----------------------------------------------------------------------------
(* C14 *)

\* The identifiers of the rows committed to the target table of t.
CommittedIds(t) == { row.id : row \in tgt[t] }

\* C14 as stated: whichever transfers succeeded or failed, every committed invoice
\* references a committed customer, and every committed line item references a
\* committed invoice and a committed product.
C14_ReferentialIntegrity ==
  /\ \A row \in tgt["txn"] : row.customer_id \in CommittedIds("member")
  /\ \A row \in tgt["det"] :
       /\ row.invoice_id \in CommittedIds("txn")
       /\ row.product_id \in CommittedIds("prod")

----------------------------------------------------------------------------
(* C15 *)

\* The transfer of t failed and its transaction was rolled back.
RolledBack(t) == outcome[t] = "rolledback"

\* C15 as stated: after a transfer that was rolled back the registry has no entry
\* under the transfer's tag, so that the later transfers skip the rows that
\* reference its table: no invoice is built after the customers were rolled back,
\* no line item after the products or the invoices were.
C15_RegistryOnlyCommitted ==
  /\ \A t \in {"emp", "member", "prod", "txn"} :
       RolledBack(t) => \A r \in SrcRows(t) : Get(migrated_records, Key(t, SrcId(t, r))) = None
  /\ RolledBack("member") => RowsAnywhere("txn") = {}
  /\ (RolledBack("prod") \/ RolledBack("txn")) => RowsAnywhere("det") = {}

----------------------------------------------------------------------------
(* C16 *)

\* The tags the registry is written under, and every key a tag can give on the source.
Tags == {"emp", "member", "prod", "txn"}

TagKeys(t) == { Key(t, SrcId(t, r)) : r \in SrcRows(t) }

\* Keys of different tags never collide, and every key of the registry is a key of
\* the tag of a transfer that has started.
C16_TagsApart ==
  /\ \A t, u \in Tags : t # u => TagKeys(t) \cap TagKeys(u) = {}
  /\ DOMAIN migrated_records \subseteq UNION { TagKeys(t) : t \in { u \in Tags : Started(u) } }

\* A step of the run removes no mapping and changes none; the mappings it adds are
\* keys of the running transfer's own tag, for the row the transfer is at; a step
\* of the invoice-items transfer leaves the registry unchanged.
C16_Step ==
  /\ \A k \in DOMAIN migrated_records :
       k \in DOMAIN migrated_records' /\ migrated_records'[k] = migrated_records[k]
  /\ \A k \in DOMAIN migrated_records' \ DOMAIN migrated_records :
       /\ T \in Tags
       /\ Building(T)
       /\ k = Key(T, SrcId(T, rows[idx]))
  /\ (pc = "run" /\ T = "det") => migrated_records' = migrated_records

\* C16: the registry only grows and each transfer writes only under its own tag: a
\* recorded mapping is never removed or changed by a later step of the run; the
\* employees, customers, products and invoices transfers add entries only under
\* their own tag, keys of different tags never collide, and the invoice-items
\* transfer leaves the registry unchanged.
C16_GrowsUnderOwnTag == []C16_TagsApart /\ [][C16_Step]_vars

\* The invoice-items transfer ended with mappings of all four tags in the registry.
C16_Witness ==
  /\ Ended("det")
  /\ data["det"] # <<>>
  /\ \A t \in Tags : TagKeys(t) \cap DOMAIN migrated_records # {}

----------------------------------------------------------------------------
(* C17 *)

\* A nullable numeric source field x reaches the target as v: the value itself when
\* the field is present (0 included), the fallback literal d when it is absent.
Carried(x, v, d) == IF x = None THEN v = d ELSE v = x[1]

\* The same for a text field, where the empty string counts as absent.
CarriedText(x, v, d) == IF x = None \/ x = Some("") THEN v = d ELSE v = x[1]

ProductOfRow(row) == CHOOSE prod \in SrcRows("prod") : prod.id_product = row.src

C17_Products ==
  \A row \in tgt["prod"] :
    LET prod == ProductOfRow(row)
    IN /\ CarriedText(prod.seri, row.sku, "SKU-" \o ToString(prod.id_product))
       /\ Carried(prod.hpp, row.cost_price, 0)
       /\ Carried(prod.harga, row.sell_price, 0)
       /\ Carried(prod.stok, row.stock, 0)

C17_Invoices ==
  \A row \in tgt["txn"] :
    LET txn == TxnOf(row)
    IN /\ Carried(txn.total_pembelian, row.items_total, 0)
       /\ Carried(txn.total_pembelian, row.grand_total, 0)
       /\ Carried(txn.total_pembayaran, row.amount_paid, 0)

C17_Items ==
  \A row \in tgt["det"] :
    LET detail == DetailOf(row)
    IN /\ Carried(detail.qty, row.quantity, 1)
       /\ Carried(detail.harga, row.unit_price, 0)
       /\ Carried(detail.subtotal, row.total_price, 0)

\* C17 as stated: in every migrated product, invoice and line item a numeric source
\* field that is present, 0 included, has the same value in the target, and the
\* fallback (0 for stock, cost, price and the invoice totals, 1 for the quantity,
\* SKU-<id_product> for the SKU) is there only when the field is absent or empty.
\* (Read on the runs in which every transfer committed, where it rests on no failure.)
C17_FallbackOnlyWhenAbsent ==
  (\A t \in Tables : outcome[t] = "committed") =>
    C17_Products /\ C17_Invoices /\ C17_Items

====
